---- MODULE Spec2Model ----
(***************************************************************************)
(* Cross-tracker mirroring of itms-developer-setup: the sync passes of     *)
(* scripts/sync_manager.py between the Monday.com board (tasks) and the    *)
(* GitHub repository (issues), and the commit linker that patches an       *)
(* issue body.  Titles are sequences of characters, so that the substring  *)
(* tests the code relies on are computed and not assumed.                  *)
(***************************************************************************)
EXTENDS Integers, Sequences, FiniteSets, TLC

(* ------------------------------ bounds -------------------------------- *)
\* Tasks a user may add to the board.
MaxUserTasks == 1
\* Issues a user may open in the repository.
MaxUserIssues == 1
\* Highest id / number either store hands out.
MaxId == 12
\* Numbers taken at once by other activity (pull requests share the issue
\* counter, items of other boards share the item-id counter).
IdJump == 10
\* Calls of update_github_issue_with_commit in a behaviour.
MaxLinks == 2

(* ----------------------------- characters ----------------------------- *)
Min(a, b) == IF a < b THEN a ELSE b

DigitChars == <<"0", "1", "2", "3", "4", "5", "6", "7", "8", "9">>

\* f"{n}" of a non-negative integer: its decimal digits.
RECURSIVE ToStr(_)
ToStr(n) ==
    IF n < 10 THEN <<DigitChars[n + 1]>>
    ELSE ToStr(n \div 10) \o <<DigitChars[(n % 10) + 1]>>

\* str.lower() on the characters the model uses.
LowerChar(c) ==
    CASE c = "A" -> "a"
      [] c = "B" -> "b"
      [] c = "M" -> "m"
      [] c = "G" -> "g"
      [] c = "H" -> "h"
      [] c = "L" -> "l"
      [] c = "C" -> "c"
      [] c = "D" -> "d"
      [] c = "I" -> "i"
      [] c = "N" -> "n"
      [] c = "P" -> "p"
      [] c = "R" -> "r"
      [] c = "U" -> "u"
      [] OTHER -> c

Range(s) == { s[i] : i \in 1..Len(s) }

Lower(s) == [i \in 1..Len(s) |-> LowerChar(s[i])]

\* Python's  s in t  on strings.
IsSubstr(s, t) ==
    \E i \in 0..(Len(t) - Len(s)) : SubSeq(t, i + 1, i + Len(s)) = s

MondayTag == <<"M", "o", "n", "d", "a", "y", "-">>
GitHubTag == <<"G", "i", "t", "H", "u", "b", "-">>

\* The bracketed marker the created title ends with: "[Monday-7]".
Marker(tag, id) == <<"[">> \o tag \o ToStr(id) \o <<"]">>

\* A title that leaves the marker out.
IssueTitleForBare(task) == task.name

\* f"{task_name} [Monday-{task_id}]"
IssueTitleFor(task) == task.name \o <<" ">> \o Marker(MondayTag, task.id)

\* f"{issue_title} [GitHub-{issue_number}]"
TaskTitleFor(issue) == issue.title \o <<" ">> \o Marker(GitHubTag, issue.number)

\* Titles users give to their own tasks and issues: no marker in them.
UserTitles == { <<"a">>, <<"A", "b">> }

(* ------------------------------ bodies -------------------------------- *)
\* A body is a sequence of text pieces.  The pieces the composer looks for
\* are pieces of their own; everything else is opaque text.
Piece(k) == [k |-> k, h |-> <<>>, m |-> <<>>]
Heading == Piece("## Commit History")
Placeholder == Piece("*Commits linked to this task will appear here automatically*")
Latest == Piece("*Latest commits for this task:*")
Rule == Piece("\n---")
Intro == Piece("intro")
Footer == Piece("footer")
Prose == Piece("prose")

\* The body sync_monday_to_github gives a new issue.
IssueBodyFor(task) == <<Intro, Heading, Placeholder, Rule, Footer>>

VARIABLES
    tasks,        \* the board's items, in board order: [id, name]
    issues,       \* the repository's issues: [number, title, body, state]
    nextItemId,   \* the id Monday.com gives the next item
    nextNumber,   \* the number GitHub gives the next issue
    userTasks,    \* how many tasks users have added
    userIssues,   \* how many issues users have opened
    lastOp,       \* the operation that produced this state
    m2g,          \* report of the last Monday -> GitHub pass
    g2m,          \* report of the last GitHub -> Monday pass
    quiet,        \* successive sync_bidirectional runs without failure or outside change
    linked,       \* per issue: its body when last written from outside, and the
                  \* commits reported as linked to it since
    links,        \* calls of update_github_issue_with_commit so far
    link,         \* outcome of the last update_github_issue_with_commit
    rerun,        \* sync_monday_to_github passes in a row with no failed create
    outside,      \* number of closes, reopenings and deletions done by users
    gone,         \* ids of the tasks and issues that lost a mirror to a deletion
    tr,           \* the field values of one item on their way between the stores
    runs,         \* the processes that run a sync pass side by side
    overlap,      \* whether a process fetched the existing items while another
                  \* process of the same direction was in its loop
    outage,       \* the last command run with a missing or invalid token or a
                  \* failing fetch: what went wrong and the store calls it made
    rounds,       \* sync_bidirectional runs in a row, none failing, nothing else
                  \* happening in between
    git           \* the working tree, the commits, the notes of the tasks and
                  \* the outcome of the last commit_to_task

vars == <<tasks, issues, nextItemId, nextNumber, userTasks, userIssues,
          lastOp, m2g, g2m, quiet, linked, links, link,
          rerun, outside, gone, tr, runs, overlap, outage, rounds, git>>

NoReport ==
    [ended |-> "none", synced_count |-> 0, attempts |-> <<>>, failed |-> <<>>,
     skipped |-> <<>>, from_monday |-> <<>>, made |-> <<>>]

NoLink ==
    [returned |-> FALSE, target |-> 0, read |-> <<>>, sent |-> <<>>, updates |-> 0,
     task_id |-> 0, titles |-> <<>>, entry |-> <<>>]

\* No mirror has been deleted.
NoneGone == [tasks |-> {}, issues |-> {}]

\* No field value is on its way.
NoTranslation ==
    [stage |-> "none", via |-> "none", text |-> <<>>, priority |-> <<>>,
     labels |-> <<>>, back |-> <<>>, given |-> <<>>, monday |-> <<>>,
     status |-> <<>>, mapped |-> <<>>]

\* The processes that can run sync_manager.py at the same time.
Procs == {1, 2}

\* A process that has not started.
IdleRun == [pc |-> "idle", dir |-> "none", todo |-> <<>>, existing |-> <<>>]
NoRuns == [p \in Procs |-> IdleRun]

\* No command has met a missing or invalid token or a failing fetch.
NoOutage ==
    [trouble |-> "none", store |-> "none", cmd |-> "none", calls |-> <<>>,
     raised |-> FALSE]

\* A clean working tree, no commit, no note, no commit_to_task yet.
NoGit ==
    [dirty |-> FALSE, commits |-> <<>>, notes |-> <<>>, events |-> <<>>,
     returned |-> FALSE]

\* The ledger of linked commits follows the issues: a new issue starts with
\* the body it was created with and no commit.
Track(ledger, is) ==
    [i \in 1..Len(is) |->
        IF i <= Len(ledger) THEN ledger[i] ELSE [base |-> is[i].body, ok |-> <<>>]]

Init ==
    /\ tasks = <<>>
    /\ issues = <<>>
    /\ nextItemId = 1
    /\ nextNumber = 1
    /\ userTasks = 0
    /\ userIssues = 0
    /\ lastOp = "init"
    /\ m2g = NoReport
    /\ g2m = NoReport
    /\ quiet = 0
    /\ linked = <<>>
    /\ links = 0
    /\ link = NoLink
    /\ rerun = 0
    /\ outside = 0
    /\ gone = NoneGone
    /\ tr = NoTranslation
    /\ runs = NoRuns
    /\ overlap = FALSE
    /\ outage = NoOutage
    /\ rounds = 0
    /\ git = NoGit

(* ------------------------------ fetches ------------------------------- *)
\* requests.get(.../issues, params={"state": "open", "per_page": 100})
PerPage == 100
\* items_page (limit: 50)
ItemsPageLimit == 50

FirstN(s, n) == SubSeq(s, 1, Min(Len(s), n))

\* get_repository_issues(): one page of the open issues.
GetRepositoryIssues(is) ==
    FirstN(SelectSeq(is, LAMBDA i : i.state = "open"), PerPage)

\* get_my_tasks(user_filter=False): the items of the board's first page.
GetMyTasks(ts) == FirstN(ts, ItemsPageLimit)

(* ----------------------- Monday.com -> GitHub -------------------------- *)
\* The test of lines 53-54 for one task against one fetched issue.
IssueMatchesTask(task, issue) ==
    \/ IsSubstr(Lower(task.name), Lower(issue.title))
    \/ IsSubstr(MondayTag \o ToStr(task.id), issue.title)

\* The flag is never set: no task is found to have an issue.
IssueExistsNever(task, existing_issues) == FALSE

\* issue_exists after the inner loop.
IssueExists(task, existing_issues) ==
    \E i \in 1..Len(existing_issues) : IssueMatchesTask(task, existing_issues[i])

\* A create that writes the new issue over what the repository held.
CreateIssueOverStore(st, task) ==
    [st EXCEPT
        !.store = <<[number |-> st.next, title |-> IssueTitleFor(task),
                     body |-> IssueBodyFor(task), state |-> "open"]>>,
        !.next = @ + 1,
        !.synced_count = @ + 1,
        !.attempts = Append(@, task),
        !.made = Append(@, st.next)]

\* github.create_issue succeeded: the repository holds one more open issue.
CreateIssue(st, task) ==
    [st EXCEPT
        !.store = Append(@, [number |-> st.next, title |-> IssueTitleFor(task),
                              body |-> IssueBodyFor(task), state |-> "open"]),
        !.next = @ + 1,
        !.synced_count = @ + 1,
        !.attempts = Append(@, task),
        !.made = Append(@, st.next)]

\* A failed create that is tried a second time, and fails again.
CreateFailedRetried(st, item) ==
    [st EXCEPT !.attempts = Append(Append(@, item), item), !.failed = Append(@, item)]

\* github.create_issue raised: the except clause prints and the loop goes on.
CreateFailed(st, item) ==
    [st EXCEPT !.attempts = Append(@, item), !.failed = Append(@, item)]

\* A failed create ends the loop.
RestAfterFailureNone(todo) == <<>>

\* What is left of the loop after a failed create: the rest of the items.
RestAfterFailure(todo) == Tail(todo)

\* The for loop of lines 46-106 over the fetched tasks; F holds the ids of
\* the tasks whose create_issue call fails.
RECURSIVE TaskLoop(_, _, _, _)
TaskLoop(todo, existing_issues, F, st) ==
    IF todo = <<>> THEN st
    ELSE LET task == Head(todo) IN
         IF IssueExists(task, existing_issues)
         THEN TaskLoop(Tail(todo), existing_issues, F,
                       [st EXCEPT !.skipped = Append(@, task)])
         ELSE IF task.id \in F
         THEN TaskLoop(RestAfterFailure(todo), existing_issues, F,
                       CreateFailed(st, task))
         ELSE TaskLoop(Tail(todo), existing_issues, F, CreateIssue(st, task))

\* The locals of a pass before its loop: synced_count = 0 and nothing done.
LoopStart(store, next) ==
    [store |-> store, next |-> next, ended |-> "complete", synced_count |-> 0,
     attempts |-> <<>>, failed |-> <<>>, skipped |-> <<>>, from_monday |-> <<>>,
     made |-> <<>>]

\* sync_monday_to_github as a function of the two stores.
MondayToGitHub(ts, is, next, F) ==
    LET fetched == GetMyTasks(ts) IN
    IF fetched = <<>>
    THEN [LoopStart(is, next) EXCEPT !.ended = "empty"]
    ELSE TaskLoop(fetched, GetRepositoryIssues(is), F, LoopStart(is, next))

\* The tasks of a pass whose create_issue call can fail: those it would create for.
TasksToCreate(ts, is) ==
    LET fetched == GetMyTasks(ts)
        existing == GetRepositoryIssues(is)
    IN { fetched[i].id : i \in { j \in 1..Len(fetched) : ~IssueExists(fetched[j], existing) } }

Report(st) ==
    [ended |-> st.ended, synced_count |-> st.synced_count, attempts |-> st.attempts,
     failed |-> st.failed, skipped |-> st.skipped, from_monday |-> st.from_monday,
     made |-> st.made]

(* ----------------------- GitHub -> Monday.com -------------------------- *)
\* The test of lines 139-141 for one issue against one fetched task.
TaskMatchesIssue(issue, task) ==
    \/ IsSubstr(Lower(issue.title), Lower(task.name))
    \/ IsSubstr(GitHubTag \o ToStr(issue.number), task.name)
    \/ IsSubstr(MondayTag, issue.title)

\* task_exists after the inner loop.
TaskExists(issue, existing_tasks) ==
    \E i \in 1..Len(existing_tasks) : TaskMatchesIssue(issue, existing_tasks[i])

\* The same without the two tests for "Monday-" in the issue title.
NeedsTaskUnguarded(issue, existing_tasks) ==
    ~\E i \in 1..Len(existing_tasks) :
        \/ IsSubstr(Lower(issue.title), Lower(existing_tasks[i].name))
        \/ IsSubstr(GitHubTag \o ToStr(issue.number), existing_tasks[i].name)

\* The condition of line 145: the issue gets a task.
NeedsTask(issue, existing_tasks) ==
    ~TaskExists(issue, existing_tasks) /\ ~IsSubstr(MondayTag, issue.title)

\* monday.create_task succeeded: the board holds one more item.
CreateTask(st, issue) ==
    [st EXCEPT
        !.store = Append(@, [id |-> st.next, name |-> TaskTitleFor(issue)]),
        !.next = @ + 1,
        !.synced_count = @ + 1,
        !.attempts = Append(@, issue),
        !.made = Append(@, st.next)]

\* The else branch of lines 168-172: which of the two skips is reported.
SkipIssue(st, issue) ==
    IF IsSubstr(MondayTag, issue.title)
    THEN [st EXCEPT !.from_monday = Append(@, issue)]
    ELSE [st EXCEPT !.skipped = Append(@, issue)]

\* The for loop of lines 132-172 over the fetched issues; F holds the numbers
\* of the issues whose create_task call fails.
RECURSIVE IssueLoop(_, _, _, _)
IssueLoop(todo, existing_tasks, F, st) ==
    IF todo = <<>> THEN st
    ELSE LET issue == Head(todo) IN
         IF ~NeedsTask(issue, existing_tasks)
         THEN IssueLoop(Tail(todo), existing_tasks, F, SkipIssue(st, issue))
         ELSE IF issue.number \in F
         THEN IssueLoop(RestAfterFailure(todo), existing_tasks, F,
                        CreateFailed(st, issue))
         ELSE IssueLoop(Tail(todo), existing_tasks, F, CreateTask(st, issue))

\* sync_github_to_monday as a function of the two stores.
GitHubToMonday(ts, is, next, F) ==
    LET fetched == GetRepositoryIssues(is) IN
    IF fetched = <<>>
    THEN [LoopStart(ts, next) EXCEPT !.ended = "empty"]
    ELSE IssueLoop(fetched, GetMyTasks(ts), F, LoopStart(ts, next))

\* The issues of a pass whose create_task call can fail.
IssuesToCreate(ts, is) ==
    LET fetched == GetRepositoryIssues(is)
        existing == GetMyTasks(ts)
    IN { fetched[i].number : i \in { j \in 1..Len(fetched) : NeedsTask(fetched[j], existing) } }

(* ------------------------------ actions ------------------------------- *)
\* A user adds a task to the board.
UserCreateTask ==
    /\ userTasks < MaxUserTasks
    /\ \E name \in UserTitles :
         tasks' = Append(tasks, [id |-> nextItemId, name |-> name])
    /\ nextItemId' = nextItemId + 1
    /\ userTasks' = userTasks + 1
    /\ lastOp' = "user"
    /\ rerun' = 0
    /\ UNCHANGED <<outside, gone, tr, runs, overlap, outage, rounds, git>>
    /\ m2g' = NoReport /\ g2m' = NoReport /\ quiet' = 0
    /\ UNCHANGED <<issues, nextNumber, userIssues, linked, links>>
    /\ link' = NoLink

\* A user opens an issue in the repository.
UserCreateIssue ==
    /\ userIssues < MaxUserIssues
    /\ \E title \in UserTitles :
         issues' = Append(issues, [number |-> nextNumber, title |-> title,
                                   body |-> <<Prose>>, state |-> "open"])
    /\ nextNumber' = nextNumber + 1
    /\ userIssues' = userIssues + 1
    /\ lastOp' = "user"
    /\ rerun' = 0
    /\ UNCHANGED <<outside, gone, tr, runs, overlap, outage, rounds, git>>
    /\ m2g' = NoReport /\ g2m' = NoReport /\ quiet' = 0
    /\ linked' = Track(linked, issues')
    /\ UNCHANGED <<tasks, nextItemId, userTasks, links>>
    /\ link' = NoLink

\* Items created on other boards take ids from the same counter.
OtherBoardItems ==
    /\ nextItemId + IdJump <= MaxId
    /\ nextItemId' = nextItemId + IdJump
    /\ lastOp' = "user"
    /\ rerun' = 0
    /\ UNCHANGED <<outside, gone, tr, runs, overlap, outage, rounds, git>>
    /\ m2g' = NoReport /\ g2m' = NoReport /\ quiet' = 0
    /\ UNCHANGED <<tasks, issues, nextNumber, userTasks, userIssues, linked, links>>
    /\ link' = NoLink

\* Pull requests take numbers from the issue counter (and are filtered out
\* of every fetch, github_integration.py line 74).
PullRequests ==
    /\ nextNumber + IdJump <= MaxId
    /\ nextNumber' = nextNumber + IdJump
    /\ lastOp' = "user"
    /\ rerun' = 0
    /\ UNCHANGED <<outside, gone, tr, runs, overlap, outage, rounds, git>>
    /\ m2g' = NoReport /\ g2m' = NoReport /\ quiet' = 0
    /\ UNCHANGED <<tasks, issues, nextItemId, userTasks, userIssues, linked, links>>
    /\ link' = NoLink

\* python3 sync_manager.py sync to-github
SyncMondayToGitHub ==
    \E F \in SUBSET TasksToCreate(tasks, issues) :
        LET r == MondayToGitHub(tasks, issues, nextNumber, F) IN
        /\ issues' = r.store
        /\ nextNumber' = r.next
        /\ m2g' = Report(r)
        /\ g2m' = NoReport
        /\ lastOp' = "to-github"
        /\ rerun' = IF F = {} THEN Min(rerun + 1, 2) ELSE 0
        /\ UNCHANGED <<outside, gone, tr, runs, overlap, outage, rounds, git>>
        /\ quiet' = 0
        /\ linked' = Track(linked, issues')
        /\ UNCHANGED <<tasks, nextItemId, userTasks, userIssues, links>>
        /\ link' = NoLink

\* python3 sync_manager.py sync to-monday
SyncGitHubToMonday ==
    \E F \in SUBSET IssuesToCreate(tasks, issues) :
        LET r == GitHubToMonday(tasks, issues, nextItemId, F) IN
        /\ tasks' = r.store
        /\ nextItemId' = r.next
        /\ g2m' = Report(r)
        /\ m2g' = NoReport
        /\ lastOp' = "to-monday"
        /\ rerun' = 0
        /\ UNCHANGED <<outside, gone, tr, runs, overlap, outage, rounds, git>>
        /\ quiet' = 0
        /\ UNCHANGED <<issues, nextNumber, userTasks, userIssues, linked, links>>
        /\ link' = NoLink

\* python3 sync_manager.py sync both: pass 1, then pass 2 on what pass 1 left.
\* The second pass working on the issues fetched before the first one.
IssuesAtPassTwoStale(before, after) == before

\* The issues that the second pass of sync_bidirectional fetches at line 120:
\* line 190 runs after line 186 has returned, so they are the repository as
\* the first pass left it.
IssuesAtPassTwo(before, after) == after

SyncBidirectional ==
    \E F1 \in SUBSET TasksToCreate(tasks, issues) :
        LET r1 == MondayToGitHub(tasks, issues, nextNumber, F1)
            seen == IssuesAtPassTwo(issues, r1.store)
        IN
        \E F2 \in SUBSET IssuesToCreate(tasks, seen) :
            LET r2 == GitHubToMonday(tasks, seen, nextItemId, F2) IN
            /\ issues' = r1.store
            /\ nextNumber' = r1.next
            /\ tasks' = r2.store
            /\ nextItemId' = r2.next
            /\ m2g' = Report(r1)
            /\ g2m' = Report(r2)
            /\ lastOp' = "both"
            /\ rerun' = 0
            /\ UNCHANGED <<outside, gone, tr, runs, overlap, outage, rounds, git>>
            /\ quiet' = IF F1 = {} /\ F2 = {} THEN Min(quiet + 1, 2) ELSE 0
            /\ linked' = Track(linked, issues')
            /\ UNCHANGED <<userTasks, userIssues, links>>
            /\ link' = NoLink

(* --------------------------- commit linker ---------------------------- *)
\* Commit hashes (git rev-parse HEAD, shortened here) and messages, a message
\* being its lines.
Hash1 == <<"a", "b", "c", "1", "2", "3", "4">>
Hash2 == <<"d", "e", "f", "5", "6", "7", "8", "9", "0">>
Commits == { [hash |-> Hash1, message |-> <<"fix bug">>],
             [hash |-> Hash2, message |-> <<"add report", "---", "details">>] }

\* commit_hash[:8]
HashPrefixLen == 8

\* The text of an entry from its k line on, cut where str.find("\n---") finds
\* a match: a message line that starts with --- is such a place.
RECURSIVE EntryPieces(_, _, _)
EntryPieces(k, h, lines) ==
    IF \E i \in 1..Len(lines) : lines[i] = "---"
    THEN LET cut == CHOOSE i \in 1..Len(lines) :
                        lines[i] = "---" /\ \A j \in 1..(i - 1) : lines[j] # "---"
         IN <<[k |-> k, h |-> h, m |-> SubSeq(lines, 1, cut - 1)], Rule>>
                \o EntryPieces("fence", h, SubSeq(lines, cut + 1, Len(lines)))
    ELSE <<[k |-> k, h |-> h, m |-> lines]>>

\* commit_entry of lines 256-257: heading line with the short hash, then the
\* message in a code fence.
CommitEntry(commit) ==
    EntryPieces("### Commit", FirstN(commit.hash, HashPrefixLen), commit.message)

Has(body, piece) == \E i \in 1..Len(body) : body[i] = piece

\* str.find: the first position of the piece at or after start, 0 if none.
Find(body, piece, start) ==
    IF \E i \in start..Len(body) : body[i] = piece
    THEN CHOOSE i \in start..Len(body) :
            body[i] = piece /\ \A j \in start..(i - 1) : body[j] # piece
    ELSE 0

\* str.replace: every occurrence of the piece gives way to the pieces of by.
RECURSIVE Replace(_, _, _)
Replace(body, piece, by) ==
    IF body = <<>> THEN <<>>
    ELSE (IF Head(body) = piece THEN by ELSE <<Head(body)>>)
             \o Replace(Tail(body), piece, by)

\* body[:at] + entry + body[at:], at being the position of the piece found.
InsertBefore(body, at, entry) ==
    SubSeq(body, 1, at - 1) \o entry \o SubSeq(body, at, Len(body))

\* A composer that adds the section whatever the body holds.
ComposeAlwaysAppends(current_body, commit_entry) ==
    current_body \o <<Heading>> \o commit_entry

\* updated_body of lines 260-274.
Compose(current_body, commit_entry) ==
    IF Has(current_body, Heading)
    THEN LET updated_body == Replace(current_body, Placeholder, <<Latest>> \o commit_entry)
         IN IF Has(current_body, Latest)
            THEN LET commit_section_start == Find(updated_body, Latest, 1)
                     insert_point == Find(updated_body, Rule, commit_section_start)
                 IN IF insert_point # 0
                    THEN InsertBefore(updated_body, insert_point, commit_entry)
                    ELSE updated_body
            ELSE updated_body
    ELSE current_body \o <<Heading>> \o commit_entry

\* The loop of lines 243-246: the first fetched issue whose title contains
\* "Monday-<task_id>", 0 if there is none.
TargetIssue(fetched, task_id) ==
    LET hits == { i \in 1..Len(fetched) :
                    IsSubstr(MondayTag \o ToStr(task_id), fetched[i].title) }
    IN IF hits = {} THEN 0
       ELSE fetched[CHOOSE i \in hits : \A j \in hits : i <= j].number

\* github.update_issue(number, body=...): the body is sent only if non-empty.
UpdateIssue(is, number, body) ==
    [i \in 1..Len(is) |->
        IF is[i].number = number /\ body # <<>>
        THEN [is[i] EXCEPT !.body = body]
        ELSE is[i]]

\* The ledger after a call that returned True for the issue.
Credit(ledger, is, number, commit) ==
    [i \in 1..Len(ledger) |->
        IF is[i].number = number
        THEN [ledger[i] EXCEPT !.ok = Append(@, commit)]
        ELSE ledger[i]]

\* Bodies a user leaves behind when editing an issue's description.
UserBodies == { <<Prose>>, <<Prose, Heading, Placeholder>> }

\* update_github_issue_with_commit(task_id, commit_hash, commit_message);
\* fails says whether the update_issue call raises.
LinkCommit ==
    /\ links < MaxLinks
    /\ \E t \in Range(tasks), commit \in Commits, fails \in BOOLEAN :
         LET fetched == GetRepositoryIssues(issues)
             number == TargetIssue(fetched, t.id)
             current_body == (CHOOSE i \in Range(issues) : i.number = number).body
             updated_body == Compose(current_body, CommitEntry(commit))
             call == [NoLink EXCEPT !.task_id = t.id,
                                    !.entry = CommitEntry(commit),
                                    !.titles = [i \in 1..Len(fetched) |-> fetched[i].title]]
         IN IF number = 0
            THEN /\ link' = call
                 /\ UNCHANGED <<issues, linked>>
            ELSE IF fails
            THEN /\ link' = [call EXCEPT !.target = number, !.read = current_body,
                                         !.sent = updated_body, !.updates = 1]
                 /\ UNCHANGED <<issues, linked>>
            ELSE /\ link' = [call EXCEPT !.returned = TRUE, !.target = number,
                                         !.read = current_body,
                                         !.sent = updated_body, !.updates = 1]
                 /\ issues' = UpdateIssue(issues, number, updated_body)
                 /\ linked' = Credit(linked, issues, number, commit)
    /\ links' = links + 1
    /\ lastOp' = "link"
    /\ rerun' = 0
    /\ UNCHANGED <<outside, gone, tr, runs, overlap, outage, rounds, git>>
    /\ m2g' = NoReport /\ g2m' = NoReport /\ quiet' = 0
    /\ UNCHANGED <<tasks, nextItemId, nextNumber, userTasks, userIssues>>

\* A user rewrites the description of an issue.
EditIssueBody ==
    /\ \E i \in 1..Len(issues), body \in UserBodies :
         /\ issues[i].body # body
         /\ issues' = [issues EXCEPT ![i].body = body]
         /\ linked' = [linked EXCEPT ![i] = [base |-> body, ok |-> <<>>]]
    /\ lastOp' = "user"
    /\ rerun' = 0
    /\ UNCHANGED <<outside, gone, tr, runs, overlap, outage, rounds, git>>
    /\ m2g' = NoReport /\ g2m' = NoReport /\ quiet' = 0
    /\ link' = NoLink
    /\ UNCHANGED <<tasks, nextItemId, nextNumber, userTasks, userIssues, links>>

(* --------------------------- outside changes -------------------------- *)
\* Closes, reopenings and deletions by users in a behaviour.
MaxOutside == 2

\* The sequence without its i-th element.
Remove(s, i) == SubSeq(s, 1, i - 1) \o SubSeq(s, i + 1, Len(s))

\* What every change made by a user leaves of the reports.
AfterUser ==
    /\ lastOp' = "user"
    /\ m2g' = NoReport /\ g2m' = NoReport /\ quiet' = 0 /\ rerun' = 0
    /\ link' = NoLink
    /\ UNCHANGED <<nextItemId, nextNumber, userTasks, userIssues, links, tr, runs, overlap,
                   outage, rounds, git>>

\* Somebody closes an open issue; get_repository_issues asks for
\* state="open" and does not return it any more.
CloseIssue ==
    /\ outside < MaxOutside
    /\ \E i \in 1..Len(issues) :
         /\ issues[i].state = "open"
         /\ issues' = [issues EXCEPT ![i].state = "closed"]
    /\ outside' = outside + 1
    /\ AfterUser
    /\ UNCHANGED <<tasks, linked, gone>>

\* Somebody reopens a closed issue.
ReopenIssue ==
    /\ outside < MaxOutside
    /\ \E i \in 1..Len(issues) :
         /\ issues[i].state = "closed"
         /\ issues' = [issues EXCEPT ![i].state = "open"]
    /\ outside' = outside + 1
    /\ AfterUser
    /\ UNCHANGED <<tasks, linked, gone>>

\* Somebody deletes an issue; the tasks whose marker its title carried have
\* lost a mirror.
DeleteIssue ==
    /\ outside < MaxOutside
    /\ \E i \in 1..Len(issues) :
         /\ issues' = Remove(issues, i)
         /\ linked' = Remove(linked, i)
         /\ gone' = [gone EXCEPT !.tasks = @ \cup
                        { t.id : t \in { u \in Range(tasks) :
                            IsSubstr(Marker(MondayTag, u.id), issues[i].title) } }]
    /\ outside' = outside + 1
    /\ AfterUser
    /\ UNCHANGED tasks

\* Somebody deletes a task; the issues whose marker its name carried have
\* lost a mirror.
DeleteTask ==
    /\ outside < MaxOutside
    /\ \E i \in 1..Len(tasks) :
         /\ tasks' = Remove(tasks, i)
         /\ gone' = [gone EXCEPT !.issues = @ \cup
                        { n.number : n \in { u \in Range(issues) :
                            IsSubstr(Marker(GitHubTag, u.number), tasks[i].name) } }]
    /\ outside' = outside + 1
    /\ AfterUser
    /\ UNCHANGED <<issues, linked>>

Next ==
    \/ UserCreateTask
    \/ UserCreateIssue
    \/ OtherBoardItems
    \/ PullRequests
    \/ SyncMondayToGitHub
    \/ SyncGitHubToMonday
    \/ SyncBidirectional

Spec == Init /\ [][Next]_vars

\* The commit linker at work on the issues the Monday -> GitHub pass creates.
NextLink ==
    \/ UserCreateTask
    \/ OtherBoardItems
    \/ SyncMondayToGitHub
    \/ EditIssueBody
    \/ LinkCommit

SpecLink == Init /\ [][NextLink]_vars

\* The two passes among users who close, reopen and delete items.
NextExt ==
    \/ UserCreateTask
    \/ UserCreateIssue
    \/ OtherBoardItems
    \/ SyncMondayToGitHub
    \/ SyncGitHubToMonday
    \/ CloseIssue
    \/ ReopenIssue
    \/ DeleteIssue
    \/ DeleteTask

SpecExt == Init /\ [][NextExt]_vars

\* The commit linker on a repository that both passes write to and whose
\* issues users close and reopen.
NextLinkExt ==
    \/ UserCreateTask
    \/ UserCreateIssue
    \/ OtherBoardItems
    \/ SyncMondayToGitHub
    \/ SyncGitHubToMonday
    \/ CloseIssue
    \/ ReopenIssue
    \/ LinkCommit

SpecLinkExt == Init /\ [][NextLinkExt]_vars

(* ---------------------------- field values ---------------------------- *)
\* The words of the two vocabularies, character by character.
High == <<"H", "i", "g", "h">>
Medium == <<"M", "e", "d", "i", "u", "m">>
Low == <<"L", "o", "w">>
Critical == <<"C", "r", "i", "t", "i", "c", "a", "l">>
Urgent == <<"u", "r", "g", "e", "n", "t">>
Minor == <<"m", "i", "n", "o", "r">>
PrioritySuffix == <<" ", "p", "r", "i", "o", "r", "i", "t", "y">>
Enhancement == <<"e", "n", "h", "a", "n", "c", "e", "m", "e", "n", "t">>
UnderDiscovery ==
    <<"U", "n", "d", "e", "r", " ", "d", "i", "s", "c", "o", "v", "e", "r",
      "y">>
ReadyForDevelopment ==
    <<"R", "e", "a", "d", "y", " ", "f", "o", "r", " ", "D", "e", "v", "e",
      "l", "o", "p", "m", "e", "n", "t">>
NeedsInformation ==
    <<"N", "e", "e", "d", "s", " ", "i", "n", "f", "o", "r", "m", "a", "t",
      "i", "o", "n">>
NotStarted == <<"n", "o", "t", " ", "s", "t", "a", "r", "t", "e", "d">>
InProgress == <<"i", "n", " ", "p", "r", "o", "g", "r", "e", "s", "s">>
Blocked == <<"b", "l", "o", "c", "k", "e", "d">>
Done == <<"D", "o", "n", "e">>

\* Texts of a task's priority column, and priorities callers pass.
PriorityTexts == { High, Medium, Low, Critical, Lower(High), Lower(Critical) }

\* Statuses callers pass to update_task.
StatusTexts == { InProgress, Blocked, UnderDiscovery, Done, Lower(Done) }

\* The keys of priority_mapping, which the if chain of create_issue follows.
KnownPriorities == { Lower(High), Lower(Medium), Lower(Low) }

\* The keys of status_mapping in update_task.
KnownStatuses ==
    { NotStarted, InProgress, Blocked,
      Lower(UnderDiscovery), Lower(ReadyForDevelopment), Lower(NeedsInformation) }

\* priority after the loop of lines 64-71 over a task with one priority column.
TaskPriority(text) ==
    IF text \in { High, Medium, Low } THEN Lower(text) ELSE Lower(Medium)

\* labels of create_issue, lines 89-99.
IssueLabels(priority) ==
    << IF Lower(priority) = Lower(High) THEN Lower(High) \o PrioritySuffix
       ELSE IF Lower(priority) = Lower(Low) THEN Lower(Low) \o PrioritySuffix
       ELSE Lower(Medium) \o PrioritySuffix,
       Enhancement >>

\* priority of lines 147-154 from the names of an issue's labels.
IssuePriority(labels) ==
    IF \E i \in 1..Len(labels) :
            Lower(labels[i]) \in { Lower(High), Lower(Critical), Urgent }
    THEN Lower(High)
    ELSE IF \E i \in 1..Len(labels) : Lower(labels[i]) \in { Lower(Low), Minor }
    THEN Lower(Low)
    ELSE Lower(Medium)

\* A priority mapping that hands on what it does not know.
TaskPriorityLabelOrSame(priority) ==
    CASE Lower(priority) = Lower(High) -> High
      [] Lower(priority) = Lower(Medium) -> Medium
      [] Lower(priority) = Lower(Low) -> Low
      [] OTHER -> priority

\* priority_mapping.get(priority.lower(), "Medium") of create_task.
TaskPriorityLabel(priority) ==
    CASE Lower(priority) = Lower(High) -> High
      [] Lower(priority) = Lower(Medium) -> Medium
      [] Lower(priority) = Lower(Low) -> Low
      [] OTHER -> Medium

\* status_mapping.get(status.lower(), status) of update_task.
MappedStatus(status) ==
    CASE Lower(status) \in { NotStarted, Lower(UnderDiscovery) } -> UnderDiscovery
      [] Lower(status) \in { InProgress, Lower(ReadyForDevelopment) } -> ReadyForDevelopment
      [] Lower(status) \in { Blocked, Lower(NeedsInformation) } -> NeedsInformation
      [] OTHER -> status

\* Everything but the field values on their way.
storeVars == <<tasks, issues, nextItemId, nextNumber, userTasks, userIssues,
               lastOp, m2g, g2m, quiet, linked, links, link,
               rerun, outside, gone, runs, overlap, outage, rounds, git>>

\* A priority text and a status are about to be translated.
InitFields ==
    /\ tasks = <<>>
    /\ issues = <<>>
    /\ nextItemId = 1
    /\ nextNumber = 1
    /\ userTasks = 0
    /\ userIssues = 0
    /\ lastOp = "init"
    /\ m2g = NoReport
    /\ g2m = NoReport
    /\ quiet = 0
    /\ linked = <<>>
    /\ links = 0
    /\ link = NoLink
    /\ rerun = 0
    /\ outside = 0
    /\ gone = NoneGone
    /\ runs = NoRuns
    /\ overlap = FALSE
    /\ outage = NoOutage
    /\ rounds = 0
    /\ git = NoGit
    /\ \E text \in PriorityTexts, status \in StatusTexts :
         tr = [NoTranslation EXCEPT !.stage = "start", !.text = text, !.status = status]

\* sync_monday_to_github reads the priority off the task's column.
ExtractPriority ==
    /\ tr.stage = "start"
    /\ tr' = [tr EXCEPT !.stage = "extracted", !.via = "sync",
                        !.priority = TaskPriority(tr.text)]
    /\ UNCHANGED storeVars

\* A caller passes the text as the priority argument.
GivenPriority ==
    /\ tr.stage = "start"
    /\ tr' = [tr EXCEPT !.stage = "extracted", !.via = "caller", !.priority = tr.text]
    /\ UNCHANGED storeVars

\* create_issue(title, body, priority) labels the new issue.
CreateIssueLabels ==
    /\ tr.stage = "extracted"
    /\ tr' = [tr EXCEPT !.stage = "labelled", !.labels = IssueLabels(tr.priority)]
    /\ UNCHANGED storeVars

\* sync_github_to_monday reads the priority off the labels of an issue.
ReadLabels ==
    /\ tr.stage = "labelled"
    /\ tr' = [tr EXCEPT !.stage = "read", !.back = IssuePriority(tr.labels)]
    /\ UNCHANGED storeVars

\* create_task(task_title, description, priority) with the priority read.
CreateTaskFromIssue ==
    /\ tr.stage = "read"
    /\ tr' = [tr EXCEPT !.stage = "created", !.given = tr.back,
                        !.monday = TaskPriorityLabel(tr.back)]
    /\ UNCHANGED storeVars

\* monday_integration.py create-task <title> <description> <priority>
CreateTaskFromCaller ==
    /\ tr.stage = "extracted"
    /\ tr.via = "caller"
    /\ tr' = [tr EXCEPT !.stage = "created", !.given = tr.priority,
                        !.monday = TaskPriorityLabel(tr.priority)]
    /\ UNCHANGED storeVars

\* update_task(item_id, status)
UpdateTaskStatus ==
    /\ tr.stage # "none"
    /\ tr.mapped = <<>>
    /\ tr' = [tr EXCEPT !.mapped = MappedStatus(tr.status)]
    /\ UNCHANGED storeVars

NextFields ==
    \/ ExtractPriority
    \/ GivenPriority
    \/ CreateIssueLabels
    \/ ReadLabels
    \/ CreateTaskFromIssue
    \/ CreateTaskFromCaller
    \/ UpdateTaskStatus

SpecFields == InitFields /\ [][NextFields]_vars

(* -------------------------- concurrent runs --------------------------- *)
\* What a step of a process leaves of the variables of whole passes.
AfterStep ==
    /\ lastOp' = "run"
    /\ m2g' = NoReport /\ g2m' = NoReport /\ quiet' = 0 /\ rerun' = 0
    /\ link' = NoLink
    /\ UNCHANGED <<userTasks, userIssues, links, outside, gone, tr, outage, rounds, git>>

\* A process starts a pass with its first fetch: the tasks (line 34) for
\* sync_monday_to_github, the issues (line 120) for sync_github_to_monday;
\* the pass returns at once when the fetch is empty.
StartRun(p) ==
    /\ runs[p].pc = "idle"
    /\ \E dir \in { "to-github", "to-monday" } :
         LET fetched == IF dir = "to-github" THEN GetMyTasks(tasks)
                        ELSE GetRepositoryIssues(issues)
         IN runs' = [runs EXCEPT ![p] =
                        [pc |-> IF fetched = <<>> THEN "done" ELSE "fetched",
                         dir |-> dir, todo |-> fetched, existing |-> <<>>]]
    /\ AfterStep
    /\ UNCHANGED <<tasks, issues, nextItemId, nextNumber, linked, overlap>>

\* The second fetch, of the items of the other store (lines 43 and 129),
\* kept for the whole loop.
FetchExisting(p) ==
    /\ runs[p].pc = "fetched"
    /\ runs' = [runs EXCEPT ![p].pc = "loop",
                            ![p].existing = IF runs[p].dir = "to-github"
                                            THEN GetRepositoryIssues(issues)
                                            ELSE GetMyTasks(tasks)]
    /\ overlap' = (overlap \/ \E q \in Procs \ {p} :
                                runs[q].pc = "loop" /\ runs[q].dir = runs[p].dir)
    /\ AfterStep
    /\ UNCHANGED <<tasks, issues, nextItemId, nextNumber, linked>>

\* The process after the item at the head of its list.
Advance(p, rest) ==
    [runs EXCEPT ![p].todo = rest,
                 ![p].pc = IF rest = <<>> THEN "done" ELSE "loop"]

\* One turn of the loop of sync_monday_to_github (lines 46-106).
StepTask(p) ==
    /\ runs[p].pc = "loop"
    /\ runs[p].dir = "to-github"
    /\ LET task == Head(runs[p].todo) IN
       IF IssueExists(task, runs[p].existing)
       THEN /\ runs' = Advance(p, Tail(runs[p].todo))
            /\ UNCHANGED <<issues, nextNumber, linked>>
       ELSE \E fails \in BOOLEAN :
              IF fails
              THEN /\ runs' = Advance(p, RestAfterFailure(runs[p].todo))
                   /\ UNCHANGED <<issues, nextNumber, linked>>
              ELSE LET r == CreateIssue(LoopStart(issues, nextNumber), task) IN
                   /\ issues' = r.store
                   /\ nextNumber' = r.next
                   /\ linked' = Track(linked, issues')
                   /\ runs' = Advance(p, Tail(runs[p].todo))
    /\ AfterStep
    /\ UNCHANGED <<tasks, nextItemId, overlap>>

\* One turn of the loop of sync_github_to_monday (lines 132-169).
StepIssue(p) ==
    /\ runs[p].pc = "loop"
    /\ runs[p].dir = "to-monday"
    /\ LET issue == Head(runs[p].todo) IN
       IF ~NeedsTask(issue, runs[p].existing)
       THEN /\ runs' = Advance(p, Tail(runs[p].todo))
            /\ UNCHANGED <<tasks, nextItemId>>
       ELSE \E fails \in BOOLEAN :
              IF fails
              THEN /\ runs' = Advance(p, RestAfterFailure(runs[p].todo))
                   /\ UNCHANGED <<tasks, nextItemId>>
              ELSE LET r == CreateTask(LoopStart(tasks, nextItemId), issue) IN
                   /\ tasks' = r.store
                   /\ nextItemId' = r.next
                   /\ runs' = Advance(p, Tail(runs[p].todo))
    /\ AfterStep
    /\ UNCHANGED <<issues, nextNumber, linked, overlap>>

\* Two processes, each running one pass, while users add items.
NextConc ==
    \/ UserCreateTask
    \/ UserCreateIssue
    \/ \E p \in Procs : StartRun(p)
    \/ \E p \in Procs : FetchExisting(p)
    \/ \E p \in Procs : StepTask(p)
    \/ \E p \in Procs : StepIssue(p)

SpecConc == Init /\ [][NextConc]_vars

(* ------------------------- tokens and fetches ------------------------- *)
Stores == { "monday", "github" }
Commands == { "to-github", "to-monday", "both" }
FetchCalls == { "get_my_tasks", "get_repository_issues" }

\* A token that no fetch depends on.
FetchOfNone(store) == "none"

\* The fetch that a store serves, and that raises when its token is refused.
FetchOf(store) ==
    IF store = "monday" THEN "get_my_tasks" ELSE "get_repository_issues"

\* A pass together with the store calls it made, in order.
Made(st, calls) == [st |-> st, calls |-> calls]

\* One create call for every attempt of the loop.
CreateCalls(st, name) == [i \in 1..Len(st.attempts) |-> name]

\* A pass that is not part of the command.
NotRun(store, next) == Made([LoopStart(store, next) EXCEPT !.ended = "none"], <<>>)

\* A failed fetch of the issues taken for an empty list: the loop runs.
TasksAfterFailedFetchAsEmpty(todo, F, st) ==
    [TaskLoop(todo, <<>>, F, st) EXCEPT !.ended = "error"]

\* get_repository_issues raised at line 43: the except of lines 110-111
\* prints the error and the pass is over.
TasksAfterFailedFetch(todo, F, st) == [st EXCEPT !.ended = "error"]

\* get_my_tasks raised at line 129: the except of lines 176-177.
IssuesAfterFailedFetch(todo, F, st) == [st EXCEPT !.ended = "error"]

\* sync_monday_to_github when the fetches in down raise.
MondayToGitHubWith(ts, is, next, F, down) ==
    LET start == LoopStart(is, next)
        fetched == GetMyTasks(ts)
    IN IF "get_my_tasks" \in down
       THEN Made([start EXCEPT !.ended = "error"], <<"get_my_tasks">>)
       ELSE IF fetched = <<>>
       THEN Made([start EXCEPT !.ended = "empty"], <<"get_my_tasks">>)
       ELSE IF "get_repository_issues" \in down
       THEN Made(TasksAfterFailedFetch(fetched, F, start),
                 <<"get_my_tasks", "get_repository_issues">>)
       ELSE LET r == TaskLoop(fetched, GetRepositoryIssues(is), F, start)
            IN Made(r, <<"get_my_tasks", "get_repository_issues">>
                          \o CreateCalls(r, "create_issue"))

\* sync_github_to_monday when the fetches in down raise.
GitHubToMondayWith(ts, is, next, F, down) ==
    LET start == LoopStart(ts, next)
        fetched == GetRepositoryIssues(is)
    IN IF "get_repository_issues" \in down
       THEN Made([start EXCEPT !.ended = "error"], <<"get_repository_issues">>)
       ELSE IF fetched = <<>>
       THEN Made([start EXCEPT !.ended = "empty"], <<"get_repository_issues">>)
       ELSE IF "get_my_tasks" \in down
       THEN Made(IssuesAfterFailedFetch(fetched, F, start),
                 <<"get_repository_issues", "get_my_tasks">>)
       ELSE LET r == IssueLoop(fetched, GetMyTasks(ts), F, start)
            IN Made(r, <<"get_repository_issues", "get_my_tasks">>
                          \o CreateCalls(r, "create_task"))

\* python3 sync_manager.py sync <cmd> with the fetches of down1 raising in
\* the Monday -> GitHub pass and those of down2 in the GitHub -> Monday pass.
\* The creates on a store that refuses the token fail too; no other call does.
TroubledRun(cmd, trouble, store, down1, down2) ==
    LET F1 == IF store = "github" THEN TasksToCreate(tasks, issues) ELSE {}
        p1 == IF cmd \in { "to-github", "both" }
              THEN MondayToGitHubWith(tasks, issues, nextNumber, F1, down1)
              ELSE NotRun(issues, nextNumber)
        F2 == IF store = "monday" THEN IssuesToCreate(tasks, p1.st.store) ELSE {}
        p2 == IF cmd \in { "to-monday", "both" }
              THEN GitHubToMondayWith(tasks, p1.st.store, nextItemId, F2, down2)
              ELSE NotRun(tasks, nextItemId)
    IN /\ issues' = p1.st.store
       /\ nextNumber' = p1.st.next
       /\ tasks' = p2.st.store
       /\ nextItemId' = p2.st.next
       /\ m2g' = Report(p1.st)
       /\ g2m' = Report(p2.st)
       /\ outage' = [trouble |-> trouble, store |-> store, cmd |-> cmd,
                     calls |-> p1.calls \o p2.calls, raised |-> FALSE]
       /\ lastOp' = "outage"
       /\ quiet' = 0 /\ rerun' = 0
       /\ linked' = Track(linked, issues')
       /\ link' = NoLink
       /\ UNCHANGED <<userTasks, userIssues, links, outside, gone, tr, runs,
                      overlap, rounds, git>>

\* MONDAY_API_TOKEN or GITHUB_TOKEN is not set: SyncManager() raises
\* ValueError in main (line 301), before the try block.
RunWithMissingToken ==
    /\ \E store \in Stores, cmd \in Commands :
         /\ outage' = [trouble |-> "missing", store |-> store, cmd |-> cmd,
                       calls |-> <<>>, raised |-> TRUE]
         /\ lastOp' = "outage"
    /\ m2g' = NoReport /\ g2m' = NoReport /\ quiet' = 0 /\ rerun' = 0
    /\ link' = NoLink
    /\ UNCHANGED <<tasks, issues, nextItemId, nextNumber, userTasks, userIssues,
                   linked, links, outside, gone, tr, runs, overlap, rounds, git>>

\* A token is set but the store refuses it: every call to that store raises.
RunWithInvalidToken ==
    \E store \in Stores, cmd \in Commands :
        TroubledRun(cmd, "invalid", store, {FetchOf(store)}, {FetchOf(store)})

\* The fetches that fail in a pass: none or one of them, a pass being over
\* at its first failed fetch.
Downs == { {} } \cup { {call} : call \in FetchCalls }

\* One fetch of a pass fails (timeout, connection, HTTP error).
RunWithFailedFetch ==
    \E cmd \in Commands :
        \E down1 \in Downs, down2 \in Downs :
            /\ \/ cmd \in { "to-github", "both" } /\ down1 # {}
               \/ cmd \in { "to-monday", "both" } /\ down2 # {}
            /\ cmd = "to-github" => down2 = {}
            /\ cmd = "to-monday" => down1 = {}
            /\ TroubledRun(cmd, "fetch", "none", down1, down2)

\* The sync commands when tokens are missing or refused and fetches fail.
NextOutage ==
    \/ UserCreateTask
    \/ UserCreateIssue
    \/ RunWithMissingToken
    \/ RunWithInvalidToken
    \/ RunWithFailedFetch

SpecOutage == Init /\ [][NextOutage]_vars

(* --------------------------- a full board ----------------------------- *)
\* Items that sync adds to a board whose first page is full.
MaxExtra == 3

\* A board with as many items as one items_page holds.  The first was synced
\* before the others were added; the issue made for it matches them by name.
FullBoard == [k \in 1..ItemsPageLimit |-> [id |-> k, name |-> <<"f">>]]

InitPages ==
    /\ tasks = FullBoard
    /\ issues = <<[number |-> 1, title |-> IssueTitleFor(FullBoard[1]),
                   body |-> IssueBodyFor(FullBoard[1]), state |-> "open"]>>
    /\ nextItemId = ItemsPageLimit + 1
    /\ nextNumber = 2
    /\ userTasks = 0
    /\ userIssues = 0
    /\ lastOp = "init"
    /\ m2g = NoReport
    /\ g2m = NoReport
    /\ quiet = 0
    /\ linked = Track(<<>>, issues)
    /\ links = 0
    /\ link = NoLink
    /\ rerun = 0
    /\ outside = 0
    /\ gone = NoneGone
    /\ tr = NoTranslation
    /\ runs = NoRuns
    /\ overlap = FALSE
    /\ outage = NoOutage
    /\ rounds = 0
    /\ git = NoGit

\* sync_github_to_monday while the board has room left in the model.
SyncToFullBoard ==
    /\ Len(tasks) < ItemsPageLimit + MaxExtra
    /\ SyncGitHubToMonday

NextPages ==
    \/ UserCreateTask
    \/ UserCreateIssue
    \/ SyncMondayToGitHub
    \/ SyncToFullBoard

SpecPages == InitPages /\ [][NextPages]_vars

(* --------------------------- repeated runs ---------------------------- *)
\* Runs of sync_bidirectional in a row.
MaxRounds == 4

\* The populations the runs start from: what users and earlier syncs left,
\* on a small board or on a full one.
InitRepeat == Init \/ InitPages

\* The items there are before the first of the repeated runs.
BeforeRuns(A) == rounds = 0 /\ A

\* sync_bidirectional with no failing call, the stores being left alone
\* since the run before.
RepeatBidirectional ==
    /\ rounds < MaxRounds
    /\ LET r1 == MondayToGitHub(tasks, issues, nextNumber, {})
           seen == IssuesAtPassTwo(issues, r1.store)
           r2 == GitHubToMonday(tasks, seen, nextItemId, {})
       IN /\ issues' = r1.store
          /\ nextNumber' = r1.next
          /\ tasks' = r2.store
          /\ nextItemId' = r2.next
          /\ m2g' = Report(r1)
          /\ g2m' = Report(r2)
    /\ rounds' = rounds + 1
    /\ lastOp' = "both"
    /\ quiet' = 0 /\ rerun' = 0
    /\ linked' = Track(linked, issues')
    /\ link' = NoLink
    /\ UNCHANGED <<userTasks, userIssues, links, outside, gone, tr, runs, overlap,
                   outage, git>>

NextRepeat ==
    \/ BeforeRuns(UserCreateTask)
    \/ BeforeRuns(UserCreateIssue)
    \/ BeforeRuns(OtherBoardItems)
    \/ BeforeRuns(SyncMondayToGitHub)
    \/ BeforeRuns(SyncToFullBoard)
    \/ RepeatBidirectional

SpecRepeat == InitRepeat /\ [][NextRepeat]_vars

(* --------------------------- commit to task --------------------------- *)
\* What can go wrong in one commit_to_task call.
Failures == { "none", "status", "add", "commit", "rev-parse", "notes", "issue" }

\* The calls that change a tracker.
TrackerCalls == { "add_commit_update", "update_github_issue_with_commit" }

\* git add . when auto_stage is set.
Stage(auto_stage, outcome) == IF auto_stage THEN <<outcome>> ELSE <<>>

\* A commit_to_task that tells the trackers before it commits.
CommitStepsTrackersFirst(has_changes, auto_stage, fail) ==
    IF fail = "status" THEN <<"git status failed">>
    ELSE IF ~has_changes THEN <<"git status">>
    ELSE <<"git status", "add_commit_update", "update_github_issue_with_commit">>
            \o Stage(auto_stage, "git add")
            \o <<(IF fail = "commit" THEN "git commit failed" ELSE "git commit")>>

\* The steps of commit_to_task (lines 139-208) in the order it takes them,
\* up to the one that fails.
CommitSteps(has_changes, auto_stage, fail) ==
    IF fail = "status" THEN <<"git status failed">>
    ELSE IF ~has_changes THEN <<"git status">>
    ELSE IF auto_stage /\ fail = "add" THEN <<"git status", "git add failed">>
    ELSE LET staged == <<"git status">> \o Stage(auto_stage, "git add") IN
         IF fail = "commit" THEN staged \o <<"git commit failed">>
         ELSE IF fail = "rev-parse"
         THEN staged \o <<"git commit", "git rev-parse failed">>
         ELSE staged \o <<"git commit", "git rev-parse", "add_commit_update",
                          "update_github_issue_with_commit">>

\* The commits git can make next: git rev-parse HEAD (line 178) gives a new
\* commit a hash no earlier one has, as long as the model has one left.
Fresh(made) ==
    LET unused == { c \in Commits : c.hash \notin Range(made) }
    IN IF unused = {} THEN Commits ELSE unused

\* Somebody changes files of the working tree.
EditFiles ==
    /\ ~git.dirty
    /\ git' = [git EXCEPT !.dirty = TRUE]
    /\ lastOp' = "user"
    /\ m2g' = NoReport /\ g2m' = NoReport /\ quiet' = 0 /\ rerun' = 0
    /\ link' = NoLink
    /\ UNCHANGED <<tasks, issues, nextItemId, nextNumber, userTasks, userIssues, linked,
                   links, outside, gone, tr, runs, overlap, outage, rounds>>

\* commit_to_task(task_id, commit_message, auto_stage); fail is the step that
\* fails, "notes" being the Monday.com update (which add_commit_update
\* swallows) and "issue" the GitHub one (caught at lines 192-193).  Every
\* change of the working tree is taken to be in the commit.
CommitToTask ==
    /\ links < MaxLinks
    /\ \E t \in Range(tasks), commit \in Fresh(git.commits), auto_stage \in BOOLEAN,
          fail \in Failures :
         LET steps == CommitSteps(git.dirty, auto_stage, fail)
             done == Range(steps)
             fetched == GetRepositoryIssues(issues)
             number == TargetIssue(fetched, t.id)
             current_body == (CHOOSE i \in Range(issues) : i.number = number).body
             updated_body == Compose(current_body, CommitEntry(commit))
             call == [NoLink EXCEPT !.task_id = t.id,
                                    !.entry = CommitEntry(commit),
                                    !.titles = [i \in 1..Len(fetched) |-> fetched[i].title]]
             sent == [call EXCEPT !.target = number, !.read = current_body,
                                  !.sent = updated_body, !.updates = 1]
         IN /\ git' = [dirty |-> git.dirty /\ "git commit" \notin done,
                       commits |-> IF "git commit" \in done
                                   THEN Append(git.commits, commit.hash)
                                   ELSE git.commits,
                       notes |-> IF "add_commit_update" \in done /\ fail # "notes"
                                 THEN <<[task_id |-> t.id, hash |-> commit.hash]>>
                                          \o git.notes
                                 ELSE git.notes,
                       events |-> steps,
                       returned |-> "update_github_issue_with_commit" \in done]
            /\ IF "update_github_issue_with_commit" \notin done
               THEN /\ link' = NoLink
                    /\ UNCHANGED <<issues, linked>>
               ELSE IF number = 0
               THEN /\ link' = call
                    /\ UNCHANGED <<issues, linked>>
               ELSE IF fail = "issue"
               THEN /\ link' = sent
                    /\ UNCHANGED <<issues, linked>>
               ELSE /\ link' = [sent EXCEPT !.returned = TRUE]
                    /\ issues' = UpdateIssue(issues, number, updated_body)
                    /\ linked' = Credit(linked, issues, number, commit)
    /\ links' = links + 1
    /\ lastOp' = "commit"
    /\ rerun' = 0
    /\ m2g' = NoReport /\ g2m' = NoReport /\ quiet' = 0
    /\ UNCHANGED <<tasks, nextItemId, nextNumber, userTasks, userIssues, outside, gone,
                   tr, runs, overlap, outage, rounds>>

NextCommit ==
    \/ UserCreateTask
    \/ SyncMondayToGitHub
    \/ EditFiles
    \/ CommitToTask

SpecCommit == Init /\ [][NextCommit]_vars

(* ----------------------------- properties ----------------------------- *)
\* The title carries some marker of the tag: "[Monday-" or "[GitHub-".
Carries(title, tag) == IsSubstr(<<"[">> \o tag, title)

\* The issues whose title contains the marker of the task, and the reverse.
MirrorsOfTask(task) ==
    { i \in 1..Len(issues) : IsSubstr(Marker(MondayTag, task.id), issues[i].title) }
MirrorsOfIssue(issue) ==
    { i \in 1..Len(tasks) : IsSubstr(Marker(GitHubTag, issue.number), tasks[i].name) }

\* The collections as the last pass of each direction found them.
IssuesBeforePass == SelectSeq(issues, LAMBDA i : i.number \notin Range(m2g.made))
TasksBeforePass == SelectSeq(tasks, LAMBDA t : t.id \notin Range(g2m.made))

(* C1: a second sync_bidirectional in succession, with no outside change   *)
(* and no failing call, creates nothing in either pass.                    *)
C1_SecondRunCreatesNothing ==
    quiet = 2 => (m2g.synced_count = 0 /\ g2m.synced_count = 0)

C3_LoopGuardBothDirections ==
    /\ \A t \in Range(m2g.attempts) : ~Carries(t.name, GitHubTag)
    /\ \A i \in Range(g2m.attempts) : ~Carries(i.title, MondayTag)

(* C4: within one sync_bidirectional, pass 2 attempts no task for an issue *)
(* that pass 1 created.                                                    *)
C4_NoMirrorBackInSameRun ==
    lastOp = "both" =>
        \A i \in Range(g2m.attempts) : i.number \notin Range(m2g.made)

C4_Witness ==
    /\ lastOp = "both"
    /\ m2g.made # <<>>
    /\ \A n \in Range(m2g.made) : \E i \in Range(g2m.from_monday) : i.number = n

(* C5: an item is skipped as existing only when a target carries its       *)
(* marker, so after a pass without failure every source item that is not   *)
(* a mirror has a counterpart carrying its marker.                         *)
C5_MarkerSoleAuthority ==
    /\ (lastOp = "to-github" /\ m2g.ended = "complete" /\ m2g.failed = <<>>) =>
           \A t \in Range(tasks) :
               ~Carries(t.name, GitHubTag) => MirrorsOfTask(t) # {}
    /\ (lastOp = "to-monday" /\ g2m.ended = "complete" /\ g2m.failed = <<>>) =>
           \A i \in Range(issues) :
               ~Carries(i.title, MondayTag) => MirrorsOfIssue(i) # {}

(* C6: an item is skipped as already mirrored only on a title that matches *)
(* its plain title or carries its own marker, never on the marker of       *)
(* another id.                                                             *)
C6_NoCrossIdMatch ==
    /\ \A t \in Range(m2g.skipped) :
           \E i \in Range(IssuesBeforePass) :
               \/ IsSubstr(Lower(t.name), Lower(i.title))
               \/ IsSubstr(Marker(MondayTag, t.id), i.title)
    /\ \A i \in Range(g2m.skipped) :
           \E t \in Range(TasksBeforePass) :
               \/ IsSubstr(Lower(i.title), Lower(t.name))
               \/ IsSubstr(Marker(GitHubTag, i.number), t.name)

\* What a pass that ran its loop reports, n being the items it fetched.
PassAccountsFor(r, n) ==
    r.ended = "complete" =>
        /\ Len(r.attempts) + Len(r.skipped) + Len(r.from_monday) = n
        /\ r.synced_count = Len(r.attempts) - Len(r.failed)
        /\ r.synced_count = Len(r.made)

(* C7: a failing create does not end the pass: every fetched item is       *)
(* either skipped or attempted, and the reported count is the number of    *)
(* creates that succeeded.                                                 *)
C7_FailureIsolation ==
    /\ PassAccountsFor(m2g, Len(TasksBeforePass))
    /\ PassAccountsFor(g2m, Len(issues))

C7_Witness ==
    \E r \in {m2g, g2m} :
        /\ Len(r.attempts) >= 2
        /\ r.attempts[1] \in Range(r.failed)
        /\ r.attempts[2] \notin Range(r.failed)

\* The rendered commit entries of a body, in the order they appear.
Entries(body) == SelectSeq(body, LAMBDA p : p.k = "### Commit")

HeadingCount(body) == Cardinality({ i \in 1..Len(body) : body[i] = Heading })

Reverse(s) == [i \in 1..Len(s) |-> s[Len(s) + 1 - i]]

Rendered(commits) == [i \in 1..Len(commits) |-> Head(CommitEntry(commits[i]))]

(* C8: an issue body holds one more commit entry for every call that       *)
(* returned True for it since the body was last written from outside.      *)
C8_EntryPerLinkedCommit ==
    \A i \in 1..Len(issues) :
        Len(Entries(issues[i].body)) =
            Len(Entries(linked[i].base)) + Len(linked[i].ok)

(* C9: where every linked commit has its entry, the entries of a body are  *)
(* the linked commits with the most recent first.                          *)
C9_NewestEntryFirst ==
    \A i \in 1..Len(issues) :
        Len(Entries(issues[i].body)) = Len(Entries(linked[i].base)) + Len(linked[i].ok)
            => Entries(issues[i].body) =
                   Reverse(Rendered(linked[i].ok)) \o Entries(linked[i].base)

(* C10: a body that started with at most one Commit History heading holds  *)
(* exactly one after any calls that returned True for it.                  *)
C10_SingleHeading ==
    \A i \in 1..Len(issues) :
        (HeadingCount(linked[i].base) <= 1 /\ linked[i].ok # <<>>) =>
            HeadingCount(issues[i].body) = 1

C10_Witness ==
    \E i \in 1..Len(issues) :
        /\ HeadingCount(linked[i].base) = 0
        /\ Len(linked[i].ok) >= 2
        /\ HeadingCount(issues[i].body) = 1

\* The fetched titles that carry the bracketed marker of the task.
MarkedTitles(titles, task_id) ==
    { i \in 1..Len(titles) : IsSubstr(Marker(MondayTag, task_id), titles[i]) }

(* C11: when more than one fetched title carries the marker of the task,   *)
(* update_github_issue_with_commit calls update_issue for none of them     *)
(* and does not return True.                                               *)
C11_AmbiguousLinkUpdatesNone ==
    (lastOp = "link" /\ Cardinality(MarkedTitles(link.titles, link.task_id)) > 1)
        => (link.updates = 0 /\ ~link.returned)

(* C12: when no fetched title carries the marker of the task,              *)
(* update_github_issue_with_commit returns False and update_issue is not   *)
(* called.                                                                 *)
C12_NotLinkedReturnsFalse ==
    (lastOp = "link" /\ MarkedTitles(link.titles, link.task_id) = {})
        => (link.updates = 0 /\ ~link.returned /\ link.sent = <<>>)

(* C13: a sync_monday_to_github pass that follows, with no change in       *)
(* between, a sync_monday_to_github pass in which no create failed creates *)
(* no issue and skips every fetched task.                                  *)
C13_RerunSkipsEveryTask ==
    rerun = 2 =>
        /\ m2g.synced_count = 0
        /\ m2g.attempts = <<>>
        /\ m2g.skipped = GetMyTasks(tasks)

C13_Witness ==
    /\ rerun = 2
    /\ m2g.skipped # <<>>
    /\ \A t \in Range(tasks) : MirrorsOfTask(t) # {}

UnknownPriority(p) == Lower(p) \notin KnownPriorities
UnknownStatus(t) == Lower(t) \notin KnownStatuses

C16_PriorityRoundTrip ==
    (tr.stage = "created" /\ tr.via = "sync" /\ tr.text \in { High, Medium, Low })
        => /\ tr.labels[1] = Lower(tr.text) \o PrioritySuffix
           /\ tr.monday = tr.text

\* Whether the store after a step still begins with the store before it.
Kept(before, after) ==
    Len(before) <= Len(after) /\ SubSeq(after, 1, Len(before)) = before

(* C17: a step of sync_monday_to_github, sync_github_to_monday or          *)
(* sync_bidirectional removes no task and no issue and leaves the title,   *)
(* body and state of every issue, and the name of every task, that was     *)
(* there before it as they were: the stores only grow.                     *)
C17_SyncOnlyCreates ==
    [][lastOp' \in { "to-github", "to-monday", "both" } =>
            (Kept(tasks, tasks') /\ Kept(issues, issues'))]_vars

C17_Witness ==
    /\ lastOp \in { "to-github", "to-monday", "both" }
    /\ m2g.made # <<>>
    /\ IssuesBeforePass # <<>>

\* Whether no element occurs twice in the sequence.
NoRepeats(s) == \A i, j \in 1..Len(s) : s[i] = s[j] => i = j

\* Whether the pass visited every item once and tried no create twice.
OneTraversal(r) ==
    /\ r.ended \in { "empty", "complete" }
    /\ NoRepeats(r.attempts \o r.skipped \o r.from_monday)
    /\ NoRepeats(r.failed)
    /\ Range(r.failed) \subseteq Range(r.attempts)
    /\ r.synced_count + Len(r.failed) = Len(r.attempts)

(* C18: whatever creates fail, a pass ends after one traversal with its    *)
(* counts reported, having visited no source item twice and attempted no   *)
(* create a second time.                                                   *)
C18_OneAttemptPerItem ==
    /\ lastOp \in { "to-github", "both" } => OneTraversal(m2g)
    /\ lastOp \in { "to-monday", "both" } => OneTraversal(g2m)

C18_Witness ==
    /\ lastOp \in { "to-github", "to-monday", "both" }
    /\ \E r \in { m2g, g2m } :
         /\ r.ended = "complete"
         /\ r.failed # <<>>
         /\ r.failed = r.attempts

(* C19: after a pass in which no create failed, every task that lost a     *)
(* mirror issue to a deletion, and every open issue that lost a mirror     *)
(* task to one, has a mirror carrying its marker again.                    *)
C19_DeletedMirrorRecreated ==
    /\ (lastOp = "to-github" /\ m2g.failed = <<>>) =>
            \A t \in Range(tasks) : t.id \in gone.tasks => MirrorsOfTask(t) # {}
    /\ (lastOp = "to-monday" /\ g2m.failed = <<>>) =>
            \A i \in Range(issues) :
                (i.number \in gone.issues /\ i.state = "open") => MirrorsOfIssue(i) # {}

\* The most mirrors any task or issue has.
NoMoreMirrorsThan(n) ==
    /\ \A t \in Range(tasks) : Cardinality(MirrorsOfTask(t)) <= n
    /\ \A i \in Range(issues) : Cardinality(MirrorsOfIssue(i)) <= n

(* C20 as stated: when two processes have run their passes side by side,   *)
(* in any interleaving of their fetches and creates, no task and no issue  *)
(* has more than one mirror.                                               *)
C20_ConcurrentRunsSafe ==
    (\A p \in Procs : runs[p].pc = "done") => NoMoreMirrorsThan(1)

(* C20, amended: two processes leave at most one mirror per item unless    *)
(* both run the same direction and one fetches the existing items while    *)
(* the other is in its loop; then each may create one, two at most.        *)
C20_OneMirrorPerOverlappingRun ==
    NoMoreMirrorsThan(IF overlap THEN 2 ELSE 1)

C20_Witness ==
    /\ overlap
    /\ \A p \in Procs : runs[p].pc = "done"
    /\ \E t \in Range(tasks) : Cardinality(MirrorsOfTask(t)) = 2

\* The calls of the last command that create or change an item.
WritingCalls(calls) ==
    { i \in 1..Len(calls) : calls[i] \in { "create_issue", "create_task", "update_issue" } }

C30_FailedFetchCreatesNothing ==
    /\ (lastOp = "outage" /\ outage.trouble = "fetch") => ~outage.raised
    /\ m2g.ended = "error" => (m2g.attempts = <<>> /\ m2g.made = <<>>)
    /\ g2m.ended = "error" => (g2m.attempts = <<>> /\ g2m.made = <<>>)

C30_Witness ==
    /\ lastOp = "outage"
    /\ outage.trouble = "fetch"
    /\ outage.cmd = "to-github"
    /\ m2g.ended = "error"
    /\ outage.calls = <<"get_my_tasks", "get_repository_issues">>
    /\ TasksToCreate(tasks, issues) # {}

\* The numbers of the issues that a GitHub -> Monday.com pass went through.
Traversed(report) ==
    { report.attempts[i].number : i \in 1..Len(report.attempts) }
        \cup { report.skipped[i].number : i \in 1..Len(report.skipped) }
        \cup { report.from_monday[i].number : i \in 1..Len(report.from_monday) }

(* C22: in sync_bidirectional the second pass goes through the open issues *)
(* as they are after the first pass: every issue the first pass created is *)
(* in its input and is skipped as synced from Monday.                      *)
C22_PassTwoSeesPassOne ==
    (lastOp = "both" /\ g2m.ended = "complete") =>
        /\ Traversed(g2m) = { i.number : i \in Range(GetRepositoryIssues(issues)) }
        /\ \A k \in 1..Len(m2g.made) :
              \E j \in 1..Len(g2m.from_monday) : g2m.from_monday[j].number = m2g.made[k]

C22_Witness ==
    /\ lastOp = "both"
    /\ m2g.made # <<>>
    /\ g2m.from_monday # <<>>
    /\ g2m.skipped # <<>>

\* Inserting before position at of the body would split an entry: the piece
\* there continues an entry that a line starting with --- has cut.
TearsEntry(body, at) ==
    /\ at \in 1..Len(body)
    /\ \/ body[at].k = "fence"
       \/ body[at] = Rule /\ at < Len(body) /\ body[at + 1].k = "fence"

\* The entry is in the body, in one piece.
HoldsEntry(body, entry) ==
    \E at \in 1..Len(body) : SubSeq(body, at, at + Len(entry) - 1) = entry

(* C23: when a call adds an entry to a body that already has entries, the  *)
(* body sent is the body read with the new entry put in at one place, and  *)
(* that place is not inside an earlier entry.                              *)
C23_PriorEntriesUntouched ==
    (/\ lastOp = "link" /\ link.updates = 1
     /\ Entries(link.read) # <<>>
     /\ link.sent # link.read) =>
        \E at \in 1..(Len(link.read) + 1) :
            /\ link.sent = InsertBefore(link.read, at, link.entry)
            /\ ~TearsEntry(link.read, at)

(* C28: a call returns True only if the body it sent holds the entry of    *)
(* its commit and differs from the body it read.                           *)
C28_TrueMeansEntrySent ==
    (lastOp = "link" /\ link.returned) =>
        /\ HoldsEntry(link.sent, link.entry)
        /\ link.sent # link.read

(* C24: when exactly one fetched title carries the marker of the task,     *)
(* update_github_issue_with_commit calls update_issue once, for the issue  *)
(* with that title.                                                        *)
C24_SingleMatchUpdatesIt ==
    (lastOp = "link" /\ Cardinality(MarkedTitles(link.titles, link.task_id)) = 1) =>
        /\ link.updates = 1
        /\ \E i \in Range(issues) :
              /\ i.number = link.target
              /\ IsSubstr(Marker(MondayTag, link.task_id), i.title)

\* The closed issues whose title carries the marker of the task id.
ClosedMirrors(task_id) ==
    { i \in 1..Len(issues) :
        /\ issues[i].state = "closed"
        /\ IsSubstr(Marker(MondayTag, task_id), issues[i].title) }

(* C26: a sync_monday_to_github pass creates no issue for a task whose     *)
(* marker a closed issue carries, and update_github_issue_with_commit      *)
(* finds an issue for a task whose marker a closed issue carries.          *)
C26_ClosedMirrorStillCounts ==
    /\ lastOp = "to-github" =>
          \A k \in 1..Len(m2g.attempts) :
              m2g.attempts[k].id \notin { f.id : f \in Range(m2g.failed) }
                  => ClosedMirrors(m2g.attempts[k].id) = {}
    /\ (lastOp = "link" /\ ClosedMirrors(link.task_id) # {}) => link.target # 0

\* The items for which the last pass made a mirror.
Mirrored(report) ==
    { a \in Range(report.attempts) : a \notin Range(report.failed) }

(* C27: a pass makes no mirror for an issue whose marker a task of the     *)
(* board already carried, nor for a task whose marker an open issue        *)
(* already carried, however many items the board or the repository holds.  *)
C27_CheckSeesWholeCollection ==
    /\ lastOp = "to-monday" =>
          \A i \in Mirrored(g2m) : \A t \in Range(TasksBeforePass) :
              ~IsSubstr(Marker(GitHubTag, i.number), t.name)
    /\ lastOp = "to-github" =>
          \A t \in Mirrored(m2g) : \A i \in Range(IssuesBeforePass) :
              i.state = "open" => ~IsSubstr(Marker(MondayTag, t.id), i.title)

\* The run after which repeated runs are to create nothing more.
QuietFrom == 3

(* C25: of the sync_bidirectional runs made in a row with no failing call  *)
(* and no outside change, the third and later ones create nothing.        *)
C25_RepeatedRunsConverge ==
    rounds >= QuietFrom => (m2g.made = <<>> /\ g2m.made = <<>>)

\* The same for the populations that fit one fetch page.
C25_SmallPopulationsConverge ==
    (rounds >= QuietFrom /\ Len(tasks) <= ItemsPageLimit) =>
        (m2g.made = <<>> /\ g2m.made = <<>>)

(* C29: in a commit_to_task call every tracker update comes after the git  *)
(* commit has succeeded; a call that made no commit returns False, has     *)
(* called neither tracker and left the notes and the issues as they were.  *)
C29_CommitBeforeTrackers ==
    lastOp = "commit" =>
        /\ \A i \in 1..Len(git.events) :
              git.events[i] \in TrackerCalls =>
                  \E j \in 1..(i - 1) : git.events[j] = "git commit"
        /\ "git commit" \notin Range(git.events) =>
              /\ ~git.returned
              /\ Range(git.events) \cap TrackerCalls = {}
              /\ link.updates = 0
              /\ \A n \in Range(git.notes) : n.hash \in Range(git.commits)
        /\ Len(git.notes) <= Len(git.commits)

C29_Witness ==
    /\ lastOp = "commit"
    /\ git.returned
    /\ git.notes # <<>>
    /\ link.returned
    /\ Len(git.commits) = 2

============================================================================
